---- MODULE Spec2Model ----
(***************************************************************************)
(* Model of soundboard/sounds.py: the Sound selection state machine, its   *)
(* variants, and the SoundSet button-combination dispatcher.               *)
(*                                                                         *)
(* Python values are modelled as follows.                                  *)
(*   - A Chunk is an integer id.  mixer.read(path) yields the chunk of     *)
(*     that path, so two reads of the same path are equal chunks.          *)
(*   - None is the integer None (never a chunk id, never an index).        *)
(*   - A list index is 0-based, as in the source; TLA+ sequences are       *)
(*     1-based, so chunks[i] of the source is chunks[i + 1] here.          *)
(*   - An exception is the name of its class in the field exc; "none"      *)
(*     means normal completion.                                            *)
(***************************************************************************)
EXTENDS Integers, Sequences, FiniteSets, TLC

\* Longest list of paths a configuration entry supplies.
MaxChunks == 4

\* Most play() calls made directly on one Sound in one behaviour of SpecSound.
MaxPlays == 6

\* Python's None.
None == -1

\* The button identifiers of the board.
Buttons == {"A", "B"}

\* The non-empty button sets, usable as keys of a configuration entry.
Combos == (SUBSET Buttons) \ {{}}

\* Registry keys of the variants (simple_name of each registered class).
SelectionTypes == {"simple", "random", "list", "wrapped"}

ListTypes == {"random", "list", "wrapped"}

SpeechTypes == {"vox", "weather", "ztm", "lastztm"}

(***************************************************************************)
(* State.                                                                  *)
(***************************************************************************)

VARIABLES
    config,   \* config['sounds']: the entries _load_sounds has yet to build
    sounds,   \* SoundSet.sounds
    op,       \* the last operation
    arg,      \* its set of buttons
    called,   \* the play()/end() calls it made on sounds, in order
    out,      \* the chunks it handed to the mixer, in order
    err,      \* the exception it raised, or "none"
    nplays,   \* play() calls made directly on the sound so far
    ended,    \* whether end() was ever called directly on the sound
    retriggered,        \* whether play() was ever called directly on the sound while it was running
    class_temperature,  \* WeatherSound.temperature, the attribute of the class
    now,                \* arrow.utcnow() as _get_prefix reads it, in seconds
    next_transport,     \* the argument of _get_prefix, in seconds
    prefix              \* the prefix _get_prefix returned, "" before the call

vars == <<config, sounds, op, arg, called, out, err, nplays, ended, retriggered,
          class_temperature, now, next_transport, prefix>>

\* The history of the direct calls.
history == <<nplays, ended, retriggered>>

\* The operands and the result of _get_prefix.
clock == <<now, next_transport, prefix>>

(***************************************************************************)
(* Collaborators that are not part of sounds.py.                           *)
(***************************************************************************)

\* First chunk id used for word audio, apart from the ids of file chunks.
VoxBase == 100

\* SDLMixer.read(path): the chunk of a path.
MixerRead(path) == path

\* voxify(sentence): one word-audio path per word of the sentence.
Voxify(sentence) == [i \in 1..Len(sentence) |-> VoxBase + sentence[i]]

(***************************************************************************)
(* Python helpers.                                                         *)
(***************************************************************************)

Ok(i) == [exc |-> "none", idx |-> i]

Raise(e) == [exc |-> e, idx |-> None]

\* x in list
InList(x, list) == \E i \in 1..Len(list) : list[i] = x

\* list.index(x): the first 0-based index holding a value equal to x.
ListIndex(list, x) ==
    (CHOOSE i \in 1..Len(list) :
        list[i] = x /\ \A j \in 1..(i - 1) : list[j] # x) - 1

\* chunks[i] for i >= 0, and chunks[-1]: the index selected, or IndexError.
Subscript(chunks, i) ==
    IF i >= 0 /\ i < Len(chunks) THEN Ok(i)
    ELSE IF i < 0 /\ Len(chunks) + i >= 0 THEN Ok(Len(chunks) + i)
    ELSE Raise("IndexError")

Max2(a, b) == IF a >= b THEN a ELSE b

(***************************************************************************)
(* Sound: construction and setup.                                          *)
(***************************************************************************)

\* Sound.__init__.  running reads the class attribute Sound.running = False,
\* which nothing assigns, until play() or end() assigns the instance; the
\* instance has no temperature (None here) until update_temperature assigns
\* one, and reads WeatherSound.temperature until then.
NewSound(type, keys) ==
    [keys |-> keys,
     type |-> type,
     has_chunks |-> FALSE,
     chunks |-> <<>>,
     current_chunk |-> None,
     running |-> FALSE,
     temperature |-> None]

\* Sound.setup(paths): one chunk per path, nothing rejected.
SoundSetup(s, paths) ==
    [s EXCEPT !.has_chunks = TRUE,
              !.chunks = [i \in 1..Len(paths) |-> MixerRead(paths[i])]]

\* setup(input) of each variant.  The input of "simple" is one path, carried
\* as a one-element tuple; Weather and ZTM store the input and load no chunk.
Setup(s, input) ==
    CASE s.type = "simple" -> SoundSetup(s, <<input[1]>>)
      [] s.type \in ListTypes -> SoundSetup(s, input)
      [] s.type = "vox" -> SoundSetup(s, Voxify(input))
      [] OTHER -> s

(***************************************************************************)
(* Sound: the selection signals.  Each yields the set of possible results, *)
(* a result being the index it selected (None for no chunk) or an          *)
(* exception.                                                              *)
(***************************************************************************)

\* A next signal that does not wrap around.
Sound_on_next_nowrap(chunks, state) ==
    IF state.position = None THEN {Raise("TypeError")}
    ELSE IF Len(chunks) = 0 THEN {Raise("ZeroDivisionError")}
    ELSE {Subscript(chunks, state.position + 1)}

Sound_on_next(chunks, state) ==
    IF state.position = None THEN {Raise("TypeError")}
    ELSE IF Len(chunks) = 0 THEN {Raise("ZeroDivisionError")}
    ELSE {Subscript(chunks, (state.position + 1) % Len(chunks))}

\* An end signal that yields the last chunk.
Sound_on_end_last(chunks, state) == {Subscript(chunks, 0 - 1)}

Sound_on_end(chunks, state) == {Ok(None)}

\* A start signal that forgets the position and always yields chunks[0].
Sound_on_start_first(chunks, state) == {Subscript(chunks, 0)}

Sound_on_start(chunks, state) ==
    {Subscript(chunks,
               IF state.position # None /\ state.position # 0
               THEN state.position ELSE 0)}

\* A Random sound that kept the sequential next signal.
RandomSound_on_next_sequential(chunks, state) ==
    IF state.position = None THEN {Raise("TypeError")}
    ELSE {Subscript(chunks, (state.position + 1) % Len(chunks))}

RandomSound_on_next(chunks, state) ==
    IF Len(chunks) = 0 THEN {Raise("IndexError")}
    ELSE {Ok(i) : i \in 0..(Len(chunks) - 1)}

\* A List start that resumes at the derived position, as the default start
\* signal does.
ListSound_on_start_resume(chunks, state) == Sound_on_start(chunks, state)

ListSound_on_start(chunks, state) == {Subscript(chunks, 0)}

\* A cycle that runs over the last chunk too.
WrappedTopLen(chunks) == Len(chunks)

\* len(chunks) - 1, the modulus of WrappedSound.on_next.
WrappedTop(chunks) == Len(chunks) - 1

\* A next signal without the clamp to 1.
WrappedSound_on_next_unclamped(chunks, state) ==
    LET top == WrappedTop(chunks) IN
    IF state.position = None THEN {Raise("TypeError")}
    ELSE IF top = 0 THEN {Raise("ZeroDivisionError")}
    ELSE {Subscript(chunks, (state.position + 1) % top)}

WrappedSound_on_next(chunks, state) ==
    LET top == WrappedTop(chunks) IN
    IF state.position = None THEN {Raise("TypeError")}
    ELSE IF top = 0 THEN {Raise("ZeroDivisionError")}
    ELSE {Subscript(chunks, Max2(1, (state.position + 1) % top))}

WrappedSound_on_start(chunks, state) == {Subscript(chunks, 0)}

WrappedSound_on_end(chunks, state) == {Subscript(chunks, 0 - 1)}

\* getattr(self, 'on_' + name): the method of the sound's class.
OnSignal(type, name, chunks, state) ==
    CASE name = "start" /\ type = "list" -> ListSound_on_start(chunks, state)
      [] name = "start" /\ type = "wrapped" -> WrappedSound_on_start(chunks, state)
      [] name = "start" /\ type \notin {"list", "wrapped"} -> Sound_on_start(chunks, state)
      [] name = "next" /\ type = "random" -> RandomSound_on_next(chunks, state)
      [] name = "next" /\ type = "wrapped" -> WrappedSound_on_next(chunks, state)
      [] name = "next" /\ type \notin {"random", "wrapped"} -> Sound_on_next(chunks, state)
      [] name = "end" /\ type = "wrapped" -> WrappedSound_on_end(chunks, state)
      [] name = "end" /\ type # "wrapped" -> Sound_on_end(chunks, state)

\* Sound._get_state
GetState(s) ==
    [chunk |-> s.current_chunk,
     position |-> IF InList(s.current_chunk, s.chunks)
                  THEN ListIndex(s.chunks, s.current_chunk) ELSE None]

\* Sound.signal(name); a sound whose setup loaded no chunk list has no
\* attribute chunks.
Signal(s, name) ==
    IF ~s.has_chunks THEN {Raise("AttributeError")}
    ELSE OnSignal(s.type, name, s.chunks, GetState(s))

\* A chain that evaluates start on every play().
SignalsAlwaysStart(running) == <<"start", "next">>

\* The signals play() evaluates, in order.
Signals(running) == IF running THEN <<"next">> ELSE <<"start", "next">>

\* Truth value of a signal's result: a chunk is true, None is false.
Truthy(r) == r.idx # None

\* Sound._obtain_chunk: the first signal that yields a chunk; an exception of
\* a signal propagates; StopIteration when no signal yields one.
ObtainChunk(s) ==
    LET sigs == Signals(s.running)
        first == Signal(s, sigs[1])
        rest(r) == IF Len(sigs) = 1 THEN {Raise("StopIteration")}
                   ELSE {IF q.exc # "none" \/ Truthy(q) THEN q
                         ELSE Raise("StopIteration") : q \in Signal(s, sigs[2])}
    IN UNION {IF r.exc # "none" \/ Truthy(r) THEN {r} ELSE rest(r) : r \in first}

(***************************************************************************)
(* Sound: play and end.  A result is the sound afterwards, the chunks      *)
(* handed to the mixer, the index the signal selected, and the exception.  *)
(***************************************************************************)

Result(s, played, sel, exc) == [sound |-> s, out |-> played, sel |-> sel, exc |-> exc]

\* The running flag play() leaves on success.
RunningAfterPlay == TRUE

\* Sound.play
Sound_play(s) ==
    {IF r.exc # "none" THEN Result(s, <<>>, None, r.exc)
     ELSE Result([s EXCEPT !.current_chunk = s.chunks[r.idx + 1],
                           !.running = RunningAfterPlay],
                 <<s.chunks[r.idx + 1]>>, r.idx, "none")
     : r \in ObtainChunk(s)}

\* A play_all that marks the sound as running, as play() does.
Sound_play_all_running(s) ==
    IF ~s.has_chunks THEN Result(s, <<>>, None, "AttributeError")
    ELSE Result([s EXCEPT !.running = TRUE], s.chunks, None, "none")

\* Sound.play_all
Sound_play_all(s) ==
    IF ~s.has_chunks THEN Result(s, <<>>, None, "AttributeError")
    ELSE Result(s, s.chunks, None, "none")

\* WeatherSound.temperature, the default of the class.
WeatherSound_temperature == 2137

\* The readings update_temperature is given.
Temperatures == {0 - 5, 20}

\* An update that assigns the attribute of the class.
UpdateTemperatureOfClass(s, class_t, temperature) ==
    [sound |-> s, class_t |-> temperature]

\* WeatherSound.update_temperature: assigns the attribute of the instance.
UpdateTemperature(s, class_t, temperature) ==
    [sound |-> [s EXCEPT !.temperature = temperature], class_t |-> class_t]

\* The sentence WeatherSound.play speaks: the template with the temperature,
\* and the suffix when it is negative.
WeatherSentence(t) == <<1, t>> \o (IF t < 0 THEN <<2>> ELSE <<>>)

\* The sentence ZTMSound.play speaks: prefix, line phrase, time phrase.
ZTMSentence(type) == <<IF type = "lastztm" THEN 4 ELSE 3, 5, 6>>

\* timedelta.seconds: the seconds of a difference of two timestamps once its
\* whole days, negative ones too, are taken out.
TimedeltaSeconds(delta) == delta % (24 * 60 * 60)

\* ZTMSound._get_prefix
ZTMSound_get_prefix(next) == "next"

\* LastZTMSound._get_prefix, with arrow.utcnow() = utcnow.
LastZTMSound_get_prefix(next_transport_, utcnow) ==
    LET seconds == TimedeltaSeconds(next_transport_ - utcnow) IN
    IF seconds <= 15 * 60 THEN "warning warning last"
    ELSE IF seconds <= 30 * 60 THEN "warning last"
    ELSE "last"

\* A transient VoxSound built from a sentence and played.
SpeakResult(s, sentence) == Result(s, Voxify(sentence), None, "none")

\* self.temperature: the attribute of the instance if it has one, else the
\* attribute of the class.
SelfTemperature(s) ==
    IF s.temperature # None THEN s.temperature ELSE class_temperature

\* play() of the sound's class.
SoundPlay(s) ==
    CASE s.type \in SelectionTypes -> Sound_play(s)
      [] s.type = "vox" -> {Sound_play_all(s)}
      [] s.type = "weather" -> {SpeakResult(s, WeatherSentence(SelfTemperature(s)))}
      [] OTHER -> {SpeakResult(s, ZTMSentence(s.type))}

\* Sound.end: running is cleared first, then the end signal is evaluated and
\* its chunk, if any, is played.
SoundEnd(s) ==
    LET stopped == [s EXCEPT !.running = FALSE]
        r == CHOOSE q \in Signal(stopped, "end") : TRUE
    IN IF r.exc # "none" THEN Result(stopped, <<>>, None, r.exc)
       ELSE IF Truthy(r) THEN Result(stopped, <<s.chunks[r.idx + 1]>>, r.idx, "none")
       ELSE Result(stopped, <<>>, None, "none")

(***************************************************************************)
(* SoundSet: the dict of sounds, kept in insertion order.                  *)
(***************************************************************************)

\* A lookup that also accepts an entry whose keys are all pressed.
DictGetContained(dict, buttons) ==
    IF \E i \in 1..Len(dict) : dict[i].keys \subseteq buttons
    THEN CHOOSE i \in 1..Len(dict) : dict[i].keys \subseteq buttons
    ELSE None

\* self.sounds.get(buttons, None): the position of the entry, or None.
DictGet(dict, buttons) ==
    IF \E i \in 1..Len(dict) : dict[i].keys = buttons
    THEN CHOOSE i \in 1..Len(dict) : dict[i].keys = buttons
    ELSE None

\* self.sounds[keys] = sound: a later entry for the same keys replaces it.
DictSet(dict, keys, sound) ==
    IF DictGet(dict, keys) = None THEN Append(dict, sound)
    ELSE [dict EXCEPT ![DictGet(dict, keys)] = sound]

\* SoundSet._create_sound
CreateSound(entry) == Setup(NewSound(entry.type, entry.keys), entry.input)

\* A release test that needs every button of the combo released.
ReleasedWholeCombo(released_buttons, buttons) == buttons \subseteq released_buttons

\* The test of SoundSet.stop on the buttons of an entry.
Released(released_buttons, buttons) == (released_buttons \cap buttons) # {}

\* A stop test that forgets the running flag.
StopMatchesReleased(released_buttons, sound) ==
    Released(released_buttons, sound.keys)

\* A stop test that forgets the buttons.
StopMatchesRunning(released_buttons, sound) == sound.running

\* The test of SoundSet.stop on one entry.
StopMatches(released_buttons, sound) ==
    Released(released_buttons, sound.keys) /\ sound.running

Call(i, method, sel) == [snd |-> i, method |-> method, sel |-> sel]

\* The loop of SoundSet.stop from entry i on: it ends on the first exception.
RECURSIVE StopLoop(_, _, _)
StopLoop(acc, released_buttons, i) ==
    IF i > Len(acc.sounds) THEN acc
    ELSE IF ~StopMatches(released_buttons, acc.sounds[i])
    THEN StopLoop(acc, released_buttons, i + 1)
    ELSE LET r == SoundEnd(acc.sounds[i])
             next == [sounds |-> [acc.sounds EXCEPT ![i] = r.sound],
                      out |-> acc.out \o r.out,
                      called |-> Append(acc.called, Call(i, "end", r.sel)),
                      exc |-> r.exc]
         IN IF r.exc # "none" THEN next
            ELSE StopLoop(next, released_buttons, i + 1)

(***************************************************************************)
(* Configurations.                                                         *)
(***************************************************************************)

Entry(type, input, keys) == [type |-> type, input |-> input, keys |-> keys]

\* The lists of n distinct paths, n = 0 .. MaxChunks.
DistinctPaths == {[i \in 1..n |-> i] : n \in 0..MaxChunks}

\* Every list of at most MaxChunks paths, up to a renaming of the paths: the
\* first path is 1 and each new path is the least one not yet used.
PathLists ==
    UNION {{l \in [1..n -> 1..n] :
              \A i \in 1..n : \A p \in 1..(l[i] - 1) : \E j \in 1..(i - 1) : l[j] = p}
           : n \in 0..MaxChunks}

Sentences == {<<1, 2>>}

\* The inputs of a variant, with the lists of paths drawn from `lists`.
InputsOf(type, lists) ==
    CASE type = "simple" -> {<<1>>}
      [] type \in ListTypes -> lists
      [] type = "vox" -> Sentences
      [] OTHER -> {<<7>>}

EntriesOver(lists, combos) ==
    UNION {{Entry(type, input, keys) :
              input \in InputsOf(type, lists), keys \in combos}
           : type \in SelectionTypes \cup SpeechTypes}

Start(cfg) ==
    /\ config = cfg
    /\ sounds = <<>>
    /\ op = "init"
    /\ arg = {}
    /\ called = <<>>
    /\ out = <<>>
    /\ err = "none"
    /\ nplays = 0
    /\ ended = FALSE
    /\ retriggered = FALSE
    /\ class_temperature = WeatherSound_temperature

\* No call of _get_prefix.
NoClock == now = 0 /\ next_transport = 0 /\ prefix = ""

\* A board of two configuration entries.
Init ==
    /\ \E a, b \in EntriesOver(DistinctPaths, Combos) : Start(<<a, b>>)
    /\ NoClock

\* One sound, built from any list of paths.
InitSound ==
    /\ \E a \in EntriesOver(PathLists, {{"A"}}) : Start(<<a>>)
    /\ NoClock

Done(name, buttons, snds, calls, played, exc) ==
    /\ sounds' = snds
    /\ op' = name
    /\ arg' = buttons
    /\ called' = calls
    /\ out' = played
    /\ err' = exc

\* One iteration of SoundSet._load_sounds.
Load ==
    /\ config # <<>>
    /\ config' = Tail(config)
    /\ Done("load", Head(config).keys,
            DictSet(sounds, Head(config).keys, CreateSound(Head(config))),
            <<>>, <<>>, "none")
    /\ UNCHANGED <<history, class_temperature, clock>>

\* SoundSet.play(buttons)
SoundSetPlay ==
    /\ config = <<>>
    /\ \E buttons \in SUBSET Buttons :
         LET i == DictGet(sounds, buttons) IN
         IF buttons = {} \/ i = None
         THEN Done("SoundSet.play", buttons, sounds, <<>>, <<>>, "none")
         ELSE \E r \in SoundPlay(sounds[i]) :
                Done("SoundSet.play", buttons, [sounds EXCEPT ![i] = r.sound],
                     <<Call(i, "play", r.sel)>>, r.out, r.exc)
    /\ UNCHANGED <<config, history, class_temperature, clock>>

\* SoundSet.stop(released_buttons)
SoundSetStop ==
    /\ config = <<>>
    /\ \E released_buttons \in SUBSET Buttons :
         LET r == StopLoop([sounds |-> sounds, out |-> <<>>, called |-> <<>>,
                            exc |-> "none"], released_buttons, 1)
         IN Done("SoundSet.stop", released_buttons, r.sounds, r.called, r.out, r.exc)
    /\ UNCHANGED <<config, history, class_temperature, clock>>

\* sound.play() called directly on a sound.
DirectPlay ==
    /\ config = <<>>
    /\ nplays < MaxPlays
    /\ \E i \in 1..Len(sounds) : \E r \in SoundPlay(sounds[i]) :
         Done("Sound.play", sounds[i].keys, [sounds EXCEPT ![i] = r.sound],
              <<Call(i, "play", r.sel)>>, r.out, r.exc)
    /\ nplays' = nplays + 1
    /\ retriggered' = (retriggered \/ \E i \in 1..Len(sounds) : sounds[i].running)
    /\ UNCHANGED <<config, ended, class_temperature, clock>>

\* sound.end() called directly on a sound.
DirectEnd ==
    /\ config = <<>>
    /\ \E i \in 1..Len(sounds) :
         LET r == SoundEnd(sounds[i]) IN
         Done("Sound.end", sounds[i].keys, [sounds EXCEPT ![i] = r.sound],
              <<Call(i, "end", r.sel)>>, r.out, r.exc)
    /\ ended' = TRUE
    /\ UNCHANGED <<config, nplays, retriggered, class_temperature, clock>>

\* The time left until the departure the transit source reports runs over
\* 0 .. MaxSlots slots of five minutes, at, a second after and a second
\* before each slot; 288 slots are one day.
MaxSlots == 300

Slot == 5 * 60

Remainings == {Slot * k + e : k \in 0..MaxSlots, e \in {0, 1, Slot - 1}}

\* The times at which _get_prefix is called.
Nows == {0, 13 * 60 * 60 + 7}

\* A LastZTMSound about to compute the prefix for any departure time.
InitPrefix ==
    /\ Start(<<>>)
    /\ now \in Nows
    /\ \E r \in Remainings : next_transport = now + r
    /\ prefix = ""

\* LastZTMSound._get_prefix(next_transport)
GetPrefix ==
    /\ prefix = ""
    /\ prefix' = LastZTMSound_get_prefix(next_transport, now)
    /\ op' = "_get_prefix"
    /\ UNCHANGED <<config, sounds, arg, called, out, err, history,
                   class_temperature, now, next_transport>>

NextPrefix == GetPrefix

\* The prefix of LastZTMSound over the departure times.
SpecPrefix == InitPrefix /\ [][NextPrefix]_vars

\* sound.update_temperature(temperature) on a Weather sound of the board.
WeatherUpdate ==
    /\ config = <<>>
    /\ \E i \in 1..Len(sounds) : \E temperature \in Temperatures :
         /\ sounds[i].type = "weather"
         /\ LET r == UpdateTemperature(sounds[i], class_temperature, temperature) IN
            /\ Done("update_temperature", sounds[i].keys,
                    [sounds EXCEPT ![i] = r.sound], <<>>, <<>>, "none")
            /\ class_temperature' = r.class_t
    /\ UNCHANGED <<config, history, clock>>

Next == Load \/ SoundSetPlay \/ SoundSetStop \/ WeatherUpdate

NextSound == Load \/ DirectPlay \/ DirectEnd

\* The board under dispatcher events.
Spec == Init /\ [][Next]_vars

\* One sound under direct play()/end() calls.
SpecSound == InitSound /\ [][NextSound]_vars

(***************************************************************************)
(* Properties.  A property of one operation is stated on the step that     *)
(* performs it: the unprimed variables are the state before the call, the  *)
(* primed ones the state after it, with op, arg, called, out and err       *)
(* describing the call.                                                    *)
(***************************************************************************)

Snds == 1..Len(sounds)

\* The calls of `method` the last operation made on the sound at position i.
CallsOn(calls, i, method) ==
    {c \in 1..Len(calls) : calls[c].snd = i /\ calls[c].method = method}

\* C1: SoundSet.stop(R) calls end() on exactly the registered sounds whose
\* combo shares a button with R and that are running (the whole combo need
\* not be released), and afterwards no sound whose combo intersects R is
\* running.
C1_StopEndsOnPartialRelease ==
    [][op' = "SoundSet.stop" =>
         /\ \A i \in Snds :
              ((arg' \cap sounds[i].keys) # {} /\ sounds[i].running)
                <=> CallsOn(called', i, "end") # {}
         /\ \A c \in 1..Len(called') : called'[c].method = "end"
         /\ Len(sounds') = Len(sounds)
         /\ \A i \in Snds :
              (arg' \cap sounds'[i].keys) # {} => ~sounds'[i].running]_vars

\* Witness for C1: A alone was released and end() was called on the sound of {A, B}.
C1_Witness ==
    /\ op = "SoundSet.stop"
    /\ arg = {"A"}
    /\ \E c \in 1..Len(called) :
         /\ called[c].method = "end"
         /\ sounds[called[c].snd].keys = {"A", "B"}
         /\ ~sounds[called[c].snd].running

\* C2: SoundSet.play(P) with P non-empty calls play() on the sound registered
\* under the combo equal to P and on no other sound; every sound registered
\* under another combo (a strict subset or superset of P included) keeps its
\* running flag and its current chunk.
C2_PlayMatchesExactCombo ==
    [][(op' = "SoundSet.play" /\ arg' # {}) =>
         /\ Len(sounds') = Len(sounds)
         /\ \A i \in Snds :
              IF sounds[i].keys = arg'
              THEN called' = <<[snd |-> i, method |-> "play", sel |-> called'[1].sel]>>
              ELSE /\ CallsOn(called', i, "play") = {}
                   /\ CallsOn(called', i, "end") = {}
                   /\ sounds'[i].running = sounds[i].running
                   /\ sounds'[i].current_chunk = sounds[i].current_chunk]_vars

\* Witness for C2: {A, B} was pressed and its sound played while the sound of the
\* strict subset {A} exists and was not called.
C2_Witness ==
    /\ op = "SoundSet.play"
    /\ arg = {"A", "B"}
    /\ err = "none"
    /\ Len(called) = 1
    /\ sounds[called[1].snd].keys = {"A", "B"}
    /\ sounds[called[1].snd].running
    /\ \E j \in Snds : sounds[j].keys = {"A"} /\ sounds[j].running

\* The sound of the scenario: {A, B} bound to a Wrapped sound with the chunks
\* [Start, Mid1, Mid2, End] = [1, 2, 3, 4].
IsScenarioSound(s) ==
    s.keys = {"A", "B"} /\ s.type = "wrapped" /\ s.chunks = <<1, 2, 3, 4>>

\* C3: for {A, B} bound to a Wrapped sound [Start, Mid1, Mid2, End], a
\* play({A, B}) of the sound when it is not running (the first one, and the
\* first after a release) plays Start; each further play({A, B}) without a
\* release plays the chunk after the current one in Start, Mid1, Mid2, Mid1,
\* ...; stop({A}) on the running sound plays End and clears running.
C3_WrappedCycleThroughDispatcher ==
    [][\A i \in Snds : IsScenarioSound(sounds[i]) =>
         /\ (op' = "SoundSet.play" /\ arg' = {"A", "B"}) =>
              /\ err' = "none"
              /\ sounds'[i].running
              /\ out' = <<sounds'[i].current_chunk>>
              /\ sounds'[i].current_chunk =
                   IF ~sounds[i].running THEN 1
                   ELSE IF sounds[i].current_chunk = 1 THEN 2
                   ELSE IF sounds[i].current_chunk = 2 THEN 3
                   ELSE 2
         /\ (op' = "SoundSet.stop" /\ arg' = {"A"} /\ sounds[i].running) =>
              /\ err' = "none"
              /\ ~sounds'[i].running
              /\ \E c \in 1..Len(called') :
                   called'[c] = [snd |-> i, method |-> "end", sel |-> 3]
              /\ \E k \in 1..Len(out') : out'[k] = 4]_vars

\* Witness for C3: after Start, Mid1 and Mid2 were played, A alone was released,
\* End was played and the sound is not running.
C3_Witness ==
    /\ op = "SoundSet.stop"
    /\ arg = {"A"}
    /\ \E i \in Snds :
         /\ IsScenarioSound(sounds[i])
         /\ sounds[i].current_chunk = 3
         /\ ~sounds[i].running
         /\ CallsOn(called, i, "end") # {}
         /\ \E k \in 1..Len(out) : out[k] = 4

IsWrapped(s, n) == s.type = "wrapped" /\ Len(s.chunks) = n

\* C4, as claimed: a play() of a running Wrapped sound with n >= 2 chunks
\* completes and selects neither index 0 nor index n - 1.
C4_RetriggerNeverSelectsFirstOrLast ==
    [][\A i \in Snds :
         (/\ sounds[i].type = "wrapped"
          /\ Len(sounds[i].chunks) >= 2
          /\ sounds[i].running
          /\ op' = "Sound.play") =>
              /\ err' = "none"
              /\ called'[1].sel # 0
              /\ called'[1].sel # Len(sounds[i].chunks) - 1]_vars

\* C4, amended: a play() of a running Wrapped sound with n >= 2 chunks
\* completes and never selects index 0; with n >= 3 it selects an index in
\* 1 .. n - 2, so never the last chunk; with n = 2 it selects index 1, which
\* is the last chunk.  A play() of a Wrapped sound that is not running
\* selects index 0.
C4_RetriggerSelectsMiddleOrClampsToOne ==
    [][\A i \in Snds :
         (/\ sounds[i].type = "wrapped"
          /\ Len(sounds[i].chunks) >= 2
          /\ op' = "Sound.play") =>
              /\ err' = "none"
              /\ sounds'[i].current_chunk = sounds[i].chunks[called'[1].sel + 1]
              /\ ~sounds[i].running => called'[1].sel = 0
              /\ (sounds[i].running /\ Len(sounds[i].chunks) >= 3) =>
                   called'[1].sel \in 1..(Len(sounds[i].chunks) - 2)
              /\ (sounds[i].running /\ Len(sounds[i].chunks) = 2) =>
                   called'[1].sel = 1]_vars

\* Witness for C4: a running Wrapped sound with four chunks was played again and
\* again, and the last play() selected index 2.
C4_Witness ==
    /\ op = "Sound.play"
    /\ nplays >= 3
    /\ ~ended
    /\ IsWrapped(sounds[1], 4)
    /\ called[1].sel = 2

PairwiseDistinct(list) ==
    \A i, j \in 1..Len(list) : list[i] = list[j] => i = j

\* C5: for a List sound with n >= 1 pairwise distinct chunks that was never
\* end()-ed, the k-th play() selects, plays and makes current
\* chunks[(k - 1) mod n].
C5_ListCyclesInOrder ==
    \A i \in Snds :
        (/\ sounds[i].type = "list"
         /\ Len(sounds[i].chunks) >= 1
         /\ PairwiseDistinct(sounds[i].chunks)
         /\ ~ended
         /\ nplays >= 1) =>
            LET n == Len(sounds[i].chunks)
                k == nplays
            IN /\ op = "Sound.play"
               /\ err = "none"
               /\ called[1].sel = (k - 1) % n
               /\ out = <<sounds[i].chunks[((k - 1) % n) + 1]>>
               /\ sounds[i].current_chunk = sounds[i].chunks[((k - 1) % n) + 1]

\* Witness for C5: the fifth play() of a List sound with three distinct chunks,
\* past the wrap from the last chunk to the first, selected chunks[1].
C5_Witness ==
    /\ op = "Sound.play"
    /\ ~ended
    /\ nplays = 5
    /\ sounds[1].type = "list"
    /\ sounds[1].chunks = <<1, 2, 3>>
    /\ sounds[1].current_chunk = 2

\* C6: a selection variant's running flag is false on a freshly built sound,
\* true after every play(), false after every end(), and only end() turns it
\* from true to false.
C6_RunningLifecycle ==
    [][\A i \in 1..Len(sounds') : sounds'[i].type \in SelectionTypes =>
         /\ op' = "load" => ~sounds'[i].running
         /\ op' = "Sound.play" => sounds'[i].running
         /\ op' = "Sound.end" => ~sounds'[i].running
         /\ (i \in Snds /\ sounds[i].running /\ ~sounds'[i].running) =>
              op' = "Sound.end"]_vars

\* C7, as claimed: end() on a sound of any variant on which play() was never
\* called yields no chunk, plays nothing and leaves running false.
C7_EndBeforePlayYieldsNothing ==
    (op = "Sound.end" /\ nplays = 0) =>
        /\ called[1].sel = None
        /\ out = <<>>
        /\ ~sounds[1].running

\* C7, amended: end() on a sound on which play() was never called leaves
\* running false; for every variant but Wrapped it yields no chunk and plays
\* nothing (it returns nothing for Simple, Random, List and Vox, and raises
\* AttributeError for Weather, Transit and LastTransit, which have no chunk
\* list); for a Wrapped sound it selects and plays the last chunk
\* (IndexError when the sound has no chunk).
C7_EndBeforePlayYieldsNothingUnlessWrapped ==
    (op = "Sound.end" /\ nplays = 0) =>
        /\ ~sounds[1].running
        /\ sounds[1].current_chunk = None
        /\ sounds[1].type # "wrapped" =>
             /\ called[1].sel = None
             /\ out = <<>>
             /\ err = IF sounds[1].type \in {"weather", "ztm", "lastztm"}
                      THEN "AttributeError" ELSE "none"
        /\ (sounds[1].type = "wrapped" /\ Len(sounds[1].chunks) >= 1) =>
             /\ called[1].sel = Len(sounds[1].chunks) - 1
             /\ out = <<sounds[1].chunks[Len(sounds[1].chunks)]>>
             /\ err = "none"
        /\ (sounds[1].type = "wrapped" /\ Len(sounds[1].chunks) = 0) =>
             /\ out = <<>>
             /\ err = "IndexError"

\* Witness for C7: end() was called on a List sound with chunks before any play().
C7_Witness ==
    /\ op = "Sound.end"
    /\ nplays = 0
    /\ sounds[1].type = "list"
    /\ Len(sounds[1].chunks) >= 2
    /\ out = <<>>

\* C8: a Random, List or Wrapped sound built from an empty list of paths is
\* rejected at load, so every such sound in the SoundSet has at least one
\* chunk.
C8_EmptyChunksRejectedAtLoad ==
    \A i \in Snds :
        sounds[i].type \in ListTypes => Len(sounds[i].chunks) >= 1

\* A dispatch miss: play() of no button or of an unregistered combo, stop()
\* of buttons that no registered combo contains.
IsMiss(name, buttons, dict) ==
    \/ name = "SoundSet.play" /\ buttons = {}
    \/ name = "SoundSet.play" /\ \A i \in 1..Len(dict) : dict[i].keys # buttons
    \/ name = "SoundSet.stop" /\ \A i \in 1..Len(dict) : (dict[i].keys \cap buttons) = {}

\* C9: a dispatch miss completes without error, calls no sound, plays no
\* chunk and leaves every registered sound as it was.
C9_DispatchMissIsNoOp ==
    [][(config = <<>> /\ IsMiss(op', arg', sounds)) =>
         /\ err' = "none"
         /\ called' = <<>>
         /\ out' = <<>>
         /\ sounds' = sounds]_vars

\* Witness for C9: B was released on a board whose only combo is {A}, while the
\* sound of {A} is running, and it still is.
C9_Witness ==
    /\ op = "SoundSet.stop"
    /\ arg = {"B"}
    /\ Len(sounds) = 1
    /\ sounds[1].keys = {"A"}
    /\ sounds[1].running
    /\ called = <<>>

\* C10: every play() of a Simple sound selects and plays its single chunk,
\* whatever preceded it.
C10_SimpleAlwaysPlaysItsChunk ==
    \A i \in Snds :
        (sounds[i].type = "simple" /\ op = "Sound.play") =>
            /\ Len(sounds[i].chunks) = 1
            /\ err = "none"
            /\ called[1].sel = 0
            /\ out = <<sounds[i].chunks[1]>>
            /\ sounds[i].current_chunk = sounds[i].chunks[1]
            /\ sounds[i].running

\* Witness for C10: a Simple sound was played, ended and played again more than
\* once.
C10_Witness ==
    /\ op = "Sound.play"
    /\ sounds[1].type = "simple"
    /\ ended
    /\ nplays >= 4
    /\ out = <<1>>

\* C11: for a Random sound with N >= 2 chunks every chunk is selectable: a
\* play() of the running sound can select each index of the sequence, making
\* that chunk current; and every play() of a running Random sound with a
\* non-empty sequence completes and selects a chunk of the sequence.
C11_RandomSelectsAnyChunk ==
    \A i \in Snds :
        (sounds[i].type = "random" /\ Len(sounds[i].chunks) >= 1) =>
            /\ (Len(sounds[i].chunks) >= 2 /\ sounds[i].running /\ nplays < MaxPlays) =>
                 \A k \in 0..(Len(sounds[i].chunks) - 1) :
                     ENABLED (/\ DirectPlay
                              /\ err' = "none"
                              /\ called'[1].sel = k
                              /\ sounds'[i].current_chunk = sounds[i].chunks[k + 1])
            /\ (op = "Sound.play" /\ nplays >= 2 /\ ~ended) =>
                 /\ err = "none"
                 /\ called[1].sel \in 0..(Len(sounds[i].chunks) - 1)
                 /\ sounds[i].current_chunk = sounds[i].chunks[called[1].sel + 1]

\* Witness for C11: a play() of a running Random sound with three distinct
\* chunks selected the last one.
C11_Witness ==
    /\ op = "Sound.play"
    /\ ~ended
    /\ nplays = 2
    /\ sounds[1].type = "random"
    /\ sounds[1].chunks = <<1, 2, 3>>
    /\ called[1].sel = 2
    /\ sounds[1].current_chunk = 3

\* The time left until the departure, in seconds.
Remaining == next_transport - now

\* C12: the prefix of LastTransit is "warning warning last" when the time
\* left until the last departure is at most 15 minutes, "warning last" when
\* it is more than 15 and at most 30 minutes, and "last" when it is more than
\* 30 minutes, a day or more included.
C12_PrefixEscalatesByRemainingTime ==
    prefix # "" =>
        prefix = IF Remaining <= 15 * 60 THEN "warning warning last"
                 ELSE IF Remaining <= 30 * 60 THEN "warning last"
                 ELSE "last"

\* C13: in every sequence of play()/end() calls on a Simple, Random, List or
\* Wrapped sound with a non-empty chunk sequence, the next signal is never
\* evaluated while the position is absent (it would raise TypeError), and
\* play() always obtains a chunk of the sequence, which becomes current.
C13_PlayAlwaysObtainsChunk ==
    [][\A i \in Snds :
         (/\ sounds[i].type \in SelectionTypes
          /\ Len(sounds[i].chunks) >= 1
          /\ op' = "Sound.play") =>
              /\ err' = "none"
              /\ called'[1].sel \in 0..(Len(sounds[i].chunks) - 1)
              /\ out' = <<sounds[i].chunks[called'[1].sel + 1]>>
              /\ sounds'[i].current_chunk = sounds[i].chunks[called'[1].sel + 1]]_vars

\* C14: in every reachable state of a Simple, Random, List or Wrapped sound,
\* currentChunk is absent exactly when play() has never been called and is
\* otherwise an element of chunks, and the derived position, when present,
\* is an index in 0 .. len(chunks) - 1.
C14_CurrentChunkAbsentIffNeverPlayed ==
    \A i \in Snds :
        sounds[i].type \in SelectionTypes =>
            /\ (sounds[i].current_chunk = None) <=> (nplays = 0)
            /\ sounds[i].current_chunk # None =>
                 \E k \in 1..Len(sounds[i].chunks) :
                     sounds[i].chunks[k] = sounds[i].current_chunk
            /\ GetState(sounds[i]).position # None =>
                 GetState(sounds[i]).position \in 0..(Len(sounds[i].chunks) - 1)

\* C15: the derived position always equals the index the last selection
\* chose, also when the same chunk occurs at more than one index: after a
\* play() whose signal returned chunks[i] the state computed for the
\* following signal has position = i; hence the k-th play() of a List
\* sound that is never end()-ed selects index (k - 1) mod n, so that n
\* consecutive plays visit every index 0 .. n - 1, even if the path list
\* repeats a file.
C15_PositionIsSelectedIndex ==
    [][\A i \in Snds :
         (/\ sounds[i].type \in SelectionTypes
          /\ op' = "Sound.play"
          /\ err' = "none"
          /\ called' = <<Call(i, "play", called'[1].sel)>>)
         => /\ GetState(sounds'[i]).position = called'[1].sel
            /\ (sounds[i].type = "list" /\ ~ended)
                 => called'[1].sel = nplays % Len(sounds[i].chunks)]_vars

\* C16: whenever play() is called on a List sound that is not running (the
\* first play, or the first play after an end()), it selects chunks[0]
\* whichever chunk was current before, and the play() that follows a
\* selection of chunks[0] without an end() in between selects index 1
\* (mod n): the sequential cycle continues from there.
C16_ListRestartSelectsFirst ==
    [][\A i \in Snds :
         (/\ sounds[i].type = "list"
          /\ Len(sounds[i].chunks) >= 1
          /\ op' = "Sound.play"
          /\ called'[1].snd = i)
         => LET n == Len(sounds[i].chunks) IN
            /\ ~sounds[i].running =>
                 /\ err' = "none"
                 /\ called'[1].sel = 0
                 /\ out' = <<sounds[i].chunks[1]>>
                 /\ sounds'[i].current_chunk = sounds[i].chunks[1]
                 /\ sounds'[i].running
            /\ (/\ sounds[i].running
                /\ op = "Sound.play"
                /\ called[1].sel = 0) =>
                 /\ err' = "none"
                 /\ called'[1].sel = 1 % n
                 /\ sounds'[i].current_chunk = sounds[i].chunks[(1 % n) + 1]]_vars

\* Witness for C16: a List sound with three chunks was played twice (current
\* chunk chunks[1]), ended, and the third play() selected chunks[0] again.
C16_Witness ==
    /\ op = "Sound.play"
    /\ err = "none"
    /\ ended
    /\ retriggered
    /\ nplays = 3
    /\ sounds[1].type = "list"
    /\ sounds[1].chunks = <<1, 2, 3>>
    /\ called[1].sel = 0
    /\ sounds[1].current_chunk = 1

\* C17: a play() of a Simple or Random sound that is not running selects
\* chunks[position] if a chunk was selected before, i.e. it re-selects the
\* current chunk, and chunks[0] otherwise; end() leaves currentChunk
\* unchanged and plays nothing; and as long as no play() was issued on the
\* running sound (play() and end() alternate), a Random sound only ever
\* selects chunks[0].
C17_DefaultStartResumes ==
    [][\A i \in Snds :
         (/\ sounds[i].type \in {"simple", "random"}
          /\ Len(sounds[i].chunks) >= 1
          /\ called' # <<>>
          /\ called'[1].snd = i)
         => /\ (op' = "Sound.play" /\ ~sounds[i].running) =>
                 /\ err' = "none"
                 /\ sounds'[i].current_chunk = sounds[i].chunks[called'[1].sel + 1]
                 /\ out' = <<sounds'[i].current_chunk>>
                 /\ IF sounds[i].current_chunk = None
                    THEN called'[1].sel = 0
                    ELSE /\ sounds'[i].current_chunk = sounds[i].current_chunk
                         /\ \A k \in 1..called'[1].sel :
                              sounds[i].chunks[k] # sounds[i].current_chunk
            /\ op' = "Sound.end" =>
                 /\ sounds'[i].current_chunk = sounds[i].current_chunk
                 /\ out' = <<>>
                 /\ ~sounds'[i].running
            /\ (op' = "Sound.play" /\ sounds[i].type = "random" /\ ~retriggered') =>
                 /\ called'[1].sel = 0
                 /\ sounds'[i].current_chunk = sounds[i].chunks[1]]_vars

\* Witness for C17: a Random sound with three chunks was played, re-triggered
\* to its last chunk, ended, and the play() after the end() selected the last
\* chunk again.
C17_Witness ==
    /\ op = "Sound.play"
    /\ err = "none"
    /\ ended
    /\ retriggered
    /\ nplays = 3
    /\ sounds[1].type = "random"
    /\ sounds[1].chunks = <<1, 2, 3>>
    /\ called[1].sel = 2
    /\ sounds[1].current_chunk = 3

\* C18: the speech variants (Vox, Weather, Transit, LastTransit) never enter
\* Running: their play() plays word chunks through play_all() and changes
\* neither running nor currentChunk (a Vox sound plays all its chunks in
\* order), so after every dispatcher event running is false and
\* currentChunk absent for these sounds, and SoundSet.stop never calls end()
\* on them.
C18_SpeechNeverRunning ==
    [][\A i \in 1..Len(sounds') :
         sounds'[i].type \in SpeechTypes =>
            /\ ~sounds'[i].running
            /\ sounds'[i].current_chunk = None
            /\ \A c \in 1..Len(called') :
                 called'[c].snd = i =>
                    /\ called'[c].method = "play"
                    /\ called'[c].sel = None
                    /\ err' = "none"
                    /\ sounds'[i] = sounds[i]
                    /\ sounds[i].type = "vox" => out' = sounds[i].chunks]_vars

\* Witness for C18: SoundSet.play reached a Vox sound, which played all its word
\* chunks and is not running.
C18_Witness ==
    /\ op = "SoundSet.play"
    /\ called # <<>>
    /\ called[1].method = "play"
    /\ sounds[called[1].snd].type = "vox"
    /\ Len(sounds[called[1].snd].chunks) >= 2
    /\ out = sounds[called[1].snd].chunks
    /\ ~sounds[called[1].snd].running

\* C19: the release sound fires at most once per press.  Every end() the
\* dispatcher calls is on a sound that was running and leaves it not
\* running, one event calls end() at most once per sound, and running turns
\* from false to true only in an event that calls play() on that sound;
\* hence between two end() calls of the dispatcher on the same sound there
\* is a play() of that sound, and releasing A and then B of combo {A, B}
\* plays the end chunk of a Wrapped sound once.
C19_EndAtMostOncePerPress ==
    [][/\ \A c \in 1..Len(called') :
            called'[c].method = "end" =>
               /\ op' = "SoundSet.stop"
               /\ sounds[called'[c].snd].running
               /\ ~sounds'[called'[c].snd].running
               /\ \A d \in 1..Len(called') :
                    d # c => called'[d].snd # called'[c].snd
       /\ \A i \in Snds :
            (/\ i <= Len(sounds')
             /\ ~sounds[i].running
             /\ sounds'[i].running) =>
               /\ op' = "SoundSet.play"
               /\ Len(called') = 1
               /\ called'[1].snd = i
               /\ called'[1].method = "play"]_vars

\* Witness for C19: a Wrapped sound on {A, B} was played and ended, and the
\* release of B that followed called end() on no sound and played nothing.
C19_Witness ==
    /\ op = "SoundSet.stop"
    /\ arg = {"B"}
    /\ called = <<>>
    /\ out = <<>>
    /\ \E i \in Snds :
         /\ sounds[i].type = "wrapped"
         /\ sounds[i].keys = {"A", "B"}
         /\ sounds[i].current_chunk # None
         /\ ~sounds[i].running

\* C20: mutable state is isolated per instance.  A SoundSet.play or
\* SoundSet.stop event changes running and currentChunk of no sound other
\* than those it calls play() or end() on, and update_temperature on one
\* Weather sound changes the temperature no other sound reads (its own
\* attribute if it has one, else the default of the class), so the
\* temperature another Weather sound speaks stays what it was.
C20_PerInstanceIsolation ==
    [][\A j \in Snds :
         /\ (/\ op' \in {"SoundSet.play", "SoundSet.stop"}
             /\ \A c \in 1..Len(called') : called'[c].snd # j) =>
                /\ sounds'[j].running = sounds[j].running
                /\ sounds'[j].current_chunk = sounds[j].current_chunk
         /\ (op' = "update_temperature" /\ sounds[j].keys # arg') =>
                /\ sounds'[j].running = sounds[j].running
                /\ sounds'[j].current_chunk = sounds[j].current_chunk
                /\ sounds[j].type = "weather" =>
                     (IF sounds'[j].temperature # None
                      THEN sounds'[j].temperature ELSE class_temperature')
                     = (IF sounds[j].temperature # None
                        THEN sounds[j].temperature ELSE class_temperature)]_vars

\* Witness for C20: of two Weather sounds one was given the temperature 20, and
\* the other, played afterwards, spoke the default temperature.
C20_Witness ==
    /\ op = "SoundSet.play"
    /\ called # <<>>
    /\ sounds[called[1].snd].type = "weather"
    /\ sounds[called[1].snd].temperature = None
    /\ out = Voxify(WeatherSentence(WeatherSound_temperature))
    /\ \E i \in Snds :
         /\ i # called[1].snd
         /\ sounds[i].type = "weather"
         /\ sounds[i].temperature = 20

====
